---- MODULE Spec2Model ----
(***************************************************************************)
(* Lead-capture relay: POST /api/submit-form and GET /health of the three  *)
(* server variants of the repository                                       *)
(*   "gmail"  : src/server-with-gmail.js        (nodemailer, SMTP relay)   *)
(*   "resend" : src/unnamed/part_001, 1..279    (Resend API)               *)
(*   "plain"  : src/unnamed/part_001, 281..409  (server.js, nodemailer)    *)
(* A handler is an async function: every action below is one run of the    *)
(* handler between two awaits (one turn of the event loop).  Requests are  *)
(* served one after the other; handlers share no state but the transport   *)
(* handle and the external sheet.                                          *)
(***************************************************************************)
EXTENDS Integers, Sequences, FiniteSets, TLC

\* ---------------------------------------------------------------- bounds
MaxRequests == 2

\* ------------------------------------------------------------- JS values
Undefined == "<undefined>"
JsTrue    == "<true>"
JsFalse   == "<false>"
JsNull    == "<null>"

\* JavaScript ToBoolean, used by `!x`, `x ? a : b` and `!!x`
Truthy(v) == v \notin {Undefined, JsNull, JsFalse, ""}

Variants == {"gmail", "resend", "plain"}

\* request bodies as express.json() hands them to the handler
Names      == {Undefined, "", "Dana"}
Emails     == {Undefined, "dana@x.com"}
Phones     == {Undefined, "0501234567"}
Whatsapps  == {Undefined, JsTrue, JsFalse}
Sources    == {Undefined, "Landing Page"}
Timestamps == {"2025-05-17T08:02:33.600Z"}

Bodies == [name : Names, email : Emails, phone : Phones,
           whatsapp : Whatsapps, source : Sources, timestamp : Timestamps]

NoBody == [name |-> Undefined, email |-> Undefined, phone |-> Undefined,
           whatsapp |-> Undefined, source |-> Undefined, timestamp |-> Undefined]

VARIABLES
    variant,            \* which server file is running
    credsPresent,       \* EMAIL_USER && EMAIL_PASS (gmail, plain) / RESEND_API_KEY (resend)
    privateKeyPresent,  \* GOOGLE_PRIVATE_KEY is set
    transporter,        \* `transporter` (gmail, plain) / `resend`: "handle" or "null"
    verifyPending,      \* the transporter.verify callback has not run yet
    served,             \* requests admitted so far
    pc,                 \* position of the submit-form handler
    formData,           \* req.body of the request in flight
    sheetSuccess,
    emailSuccess,
    response,           \* last response sent for the request in flight
    responsesSent,      \* number of res.json() calls for the request in flight
    sheet,              \* rows of the external range Leads!A:F
    sheetMark,          \* Len(sheet) when the request was admitted
    appendCalls,        \* calls of sheets.spreadsheets.values.append for this request
    notifyCalls,        \* invocations of sendNotificationEmail for this request
    sendCalls,          \* calls of transporter.sendMail / resend.emails.send
    sinkResult,         \* "none", "ok", "threw": how appendToSheet ended
    transportResult,    \* "none", "ok", "throw", "errorResult": how the send call ended
    senderResult,       \* "none", "sent", "null", "raised": how sendNotificationEmail ended
    message,            \* the message handed to the send call for this request
    seen,               \* transport states read so far by requests (`!transporter`, `!!transporter`)
    healthResp          \* last response of GET /health

config   == <<variant, credsPresent, privateKeyPresent>>
handles  == <<transporter, verifyPending, seen>>
reqVars  == <<served, pc, formData, sheetSuccess, emailSuccess, response,
              responsesSent, sheetMark, appendCalls, notifyCalls, sendCalls,
              sinkResult, transportResult, senderResult, message>>
vars     == <<config, handles, reqVars, sheet, healthResp>>


\* ------------------------------------------------------------- responses
NoResponse == [status |-> 0, success |-> FALSE, message |-> "", details |-> {}]

\* res.status(400).json({ success: false, message: 'Missing required fields' })
MissingFields == [status |-> 400, success |-> FALSE,
                  message |-> "Missing required fields", details |-> {}]

\* res.status(500).json({ success: false, message: 'Server error' })
ServerError == [status |-> 500, success |-> FALSE,
                message |-> "Server error", details |-> {}]

\* server.js: res.status(200).json({ success: true, message: ... }), no details
PlainSuccess == [status |-> 200, success |-> TRUE,
                 message |-> "Form submitted successfully", details |-> {}]

\* the if (overallSuccess) ... else ... of the gmail and resend handlers;
\* `details` is the set holding the details object (empty: no details key)
Composed(ss, es) ==
    LET overallSuccess == ss
    IN  IF overallSuccess
        THEN [status |-> 200, success |-> TRUE,
              message |-> "Form submitted successfully",
              details |-> {[sheetSuccess |-> ss, emailSuccess |-> es]}]
        ELSE [status |-> 500, success |-> FALSE,
              message |-> "Failed to process form submission",
              details |-> {[sheetSuccess |-> ss, emailSuccess |-> es]}]

\* --------------------------------------------------------- pure functions
\* the validation with the phone test left out
ValidWithoutPhone(fd) == Truthy(fd.name) /\ Truthy(fd.email)

\* !( !formData.name || !formData.email || !formData.phone )
Valid(fd) == Truthy(fd.name) /\ Truthy(fd.email) /\ Truthy(fd.phone)

\* the row with the consent cell testing `=== false` instead of truthiness
RowStrictConsent(data) ==
    << data.timestamp, data.name, data.email, data.phone,
       IF data.whatsapp = JsFalse THEN "No" ELSE "Yes",
       data.source >>

\* the single row of `values` built by appendToSheet
Row(data) ==
    << data.timestamp, data.name, data.email, data.phone,
       IF Truthy(data.whatsapp) THEN "Yes" ELSE "No",
       data.source >>

\* getGoogleSheetsAuth: resend and server.js call .replace on the key
\* unguarded (TypeError when it is unset); the gmail file guards it
AuthThrows == variant # "gmail" /\ ~privateKeyPresent

\* outcomes of sheets.spreadsheets.values.append (external): without a
\* private key the service account cannot authenticate
SinkOutcomes == IF privateKeyPresent THEN {"ok", "throw"} ELSE {"throw"}

\* outcomes of transporter.sendMail / resend.emails.send (external);
\* the Resend client can also resolve to an object that carries an error;
\* a nodemailer transport exists without credentials only in server.js
TransportOutcomes ==
    IF variant = "resend" THEN {"ok", "throw", "errorResult"}
    ELSE IF credsPresent  THEN {"ok", "throw"}
    ELSE {"throw"}    \* server.js without EMAIL_USER / EMAIL_PASS: SMTP auth fails

\* sendNotificationEmail as its caller sees it, o the outcome of the send
\* call ("none": not called): raised or not, and the value returned
SendNotificationEmail(v, t, o) ==
    IF v = "plain"
    THEN \* return transporter.sendMail(mailOptions): no guard, no catch
         IF o = "throw" THEN [raised |-> TRUE,  value |-> Undefined]
                        ELSE [raised |-> FALSE, value |-> "<info>"]
    ELSE IF t = "null"  THEN [raised |-> FALSE, value |-> JsNull]
    ELSE IF o = "throw" THEN [raised |-> FALSE, value |-> JsNull]
    ELSE IF o = "errorResult"
                        THEN [raised |-> FALSE, value |-> "<response with error>"]
                        ELSE [raised |-> FALSE, value |-> "<info>"]

\* process.env.NOTIFICATION_EMAIL, the one configured recipient
NOTIFICATION_EMAIL == "operator@example.com"

\* the label the gmail and resend templates print for a falsy source (the
\* Hebrew for "landing page", transliterated) and the one of server.js
HebrewDefaultSource == "daf nehita"
PlainDefaultSource  == "Landing Page"

\* new Date(data.timestamp).toLocaleString(...): the instant, rendered for a locale
FormattedDate(v, ts) == << IF v = "plain" THEN "default locale" ELSE "he-IL Asia/Jerusalem", ts >>

NoMessage == [to |-> Undefined]

\* the object handed to transporter.sendMail / resend.emails.send: the
\* envelope, and the submission fields the body prints
MailOptions(v, data) ==
    [ to       |-> NOTIFICATION_EMAIL,
      replyTo  |-> IF v = "gmail" THEN data.email ELSE Undefined,
      subject  |-> IF v = "plain" THEN << "New Lead Captured!" >>
                                  ELSE << data.name, data.phone >>,
      name     |-> data.name,
      email    |-> data.email,
      phone    |-> data.phone,
      whatsapp |-> IF Truthy(data.whatsapp) THEN "yes" ELSE "no",
      source   |-> IF Truthy(data.source) THEN data.source
                   ELSE IF v = "plain" THEN PlainDefaultSource ELSE HebrewDefaultSource,
      date     |-> FormattedDate(v, data.timestamp),
      hasText  |-> (v = "gmail") ]

SenderResultOf(r) ==
    IF r.raised THEN "raised" ELSE IF r.value = JsNull THEN "null" ELSE "sent"

\* ---------------------------------------------------------------- startup
Init ==
    /\ variant \in Variants
    /\ credsPresent \in BOOLEAN
    /\ privateKeyPresent \in BOOLEAN
    /\ transporter = IF variant = "plain" \/ credsPresent THEN "handle" ELSE "null"
    /\ verifyPending = (variant = "gmail" /\ credsPresent)
    /\ served = 0
    /\ pc = "idle"
    /\ formData = NoBody
    /\ sheetSuccess = FALSE
    /\ emailSuccess = FALSE
    /\ response = NoResponse
    /\ responsesSent = 0
    /\ sheet = << >>
    /\ sheetMark = 0
    /\ appendCalls = 0
    /\ notifyCalls = 0
    /\ sendCalls = 0
    /\ sinkResult = "none"
    /\ transportResult = "none"
    /\ senderResult = "none"
    /\ message = NoMessage
    /\ seen = {}
    /\ healthResp = [status |-> 0, body |-> {}]

\* transporter.verify(function (error, success) {...}) of the gmail file
VerifyCallback(error) ==
    /\ verifyPending
    /\ verifyPending' = FALSE
    /\ transporter' = IF error THEN "null" ELSE transporter
    /\ UNCHANGED <<config, seen, reqVars, sheet, healthResp>>

\* ------------------------------------------------ POST /api/submit-form
\* the outer catch: res.status(500).json({ success: false, message: 'Server error' })
OuterCatch ==
    /\ response' = ServerError
    /\ responsesSent' = responsesSent + 1
    /\ pc' = "done"
    /\ UNCHANGED <<sheetSuccess, emailSuccess, notifyCalls, sendCalls, senderResult,
                   message, seen>>

\* from the end of the sheet try/catch up to the next await: the call of
\* sendNotificationEmail, which either returns null at once (no transport)
\* or issues the send call
NotifyStep(ss) ==
    /\ sheetSuccess' = ss
    /\ notifyCalls' = notifyCalls + 1
    /\ seen' = IF variant = "plain" THEN seen ELSE seen \cup {transporter}
    /\ IF variant # "plain" /\ transporter = "null"
       THEN LET r == SendNotificationEmail(variant, transporter, "none")
            IN  /\ senderResult' = SenderResultOf(r)
                /\ emailSuccess' = Truthy(r.value)
                /\ response' = Composed(ss, emailSuccess')
                /\ responsesSent' = responsesSent + 1
                /\ pc' = "done"
                /\ UNCHANGED <<sendCalls, message>>
       ELSE /\ sendCalls' = sendCalls + 1
            /\ message' = MailOptions(variant, formData)
            /\ pc' = "send"
            /\ UNCHANGED <<senderResult, emailSuccess, response, responsesSent>>

\* the handler entry with the `return` of the 400 branch missing
ReceiveNoReturn(body) ==
    /\ pc \in {"idle", "done"}
    /\ served < MaxRequests
    /\ served' = served + 1
    /\ formData' = body
    /\ sheetSuccess' = FALSE
    /\ emailSuccess' = FALSE
    /\ sheetMark' = Len(sheet)
    /\ appendCalls' = 0
    /\ notifyCalls' = 0
    /\ sendCalls' = 0
    /\ sinkResult' = "none"
    /\ transportResult' = "none"
    /\ senderResult' = "none"
    /\ message' = NoMessage
    /\ IF ~Valid(body)
       THEN /\ response' = MissingFields
            /\ responsesSent' = 1
       ELSE /\ response' = NoResponse
            /\ responsesSent' = 0
    /\ pc' = "auth"
    /\ UNCHANGED <<config, handles, sheet, healthResp>>

\* handler entry up to `await getGoogleSheetsAuth()`
Receive(body) ==
    /\ pc \in {"idle", "done"}
    /\ served < MaxRequests
    /\ served' = served + 1
    /\ formData' = body
    /\ sheetSuccess' = FALSE
    /\ emailSuccess' = FALSE
    /\ sheetMark' = Len(sheet)
    /\ appendCalls' = 0
    /\ notifyCalls' = 0
    /\ sendCalls' = 0
    /\ sinkResult' = "none"
    /\ transportResult' = "none"
    /\ senderResult' = "none"
    /\ message' = NoMessage
    /\ IF ~Valid(body)
       THEN /\ response' = MissingFields
            /\ responsesSent' = 1
            /\ pc' = "done"
       ELSE /\ response' = NoResponse
            /\ responsesSent' = 0
            /\ pc' = "auth"
    /\ UNCHANGED <<config, handles, sheet, healthResp>>

\* the auth step with the notification started alongside the append call
AuthReturnsParallel ==
    /\ pc = "auth"
    /\ IF AuthThrows
       THEN /\ sinkResult' = "threw"
            /\ UNCHANGED appendCalls
            /\ IF variant = "plain" THEN OuterCatch ELSE NotifyStep(FALSE)
       ELSE /\ appendCalls' = appendCalls + 1
            /\ notifyCalls' = notifyCalls + 1
            /\ sendCalls' = sendCalls + 1
            /\ pc' = "append"
            /\ UNCHANGED <<sinkResult, sheetSuccess, emailSuccess,
                           senderResult, response, responsesSent,
                           message, seen>>
    /\ UNCHANGED <<config, transporter, verifyPending, served, formData, sheetMark,
                   transportResult, sheet, healthResp>>

\* appendToSheet after the auth await: the key TypeError, or the append call
AuthReturns ==
    /\ pc = "auth"
    /\ IF AuthThrows
       THEN /\ sinkResult' = "threw"
            /\ UNCHANGED appendCalls
            /\ IF variant = "plain" THEN OuterCatch ELSE NotifyStep(FALSE)
       ELSE /\ appendCalls' = appendCalls + 1
            /\ pc' = "append"
            /\ UNCHANGED <<sinkResult, sheetSuccess, emailSuccess, notifyCalls,
                           sendCalls, senderResult, response, responsesSent,
                           message, seen>>
    /\ UNCHANGED <<config, transporter, verifyPending, served, formData, sheetMark,
                   transportResult, sheet, healthResp>>

\* the append step with a failed append call issued a second time
AppendReturnsRetry(o) ==
    /\ pc = "append"
    /\ o \in SinkOutcomes
    /\ IF o = "ok"
       THEN /\ sheet' = sheet \o << Row(formData) >>
            /\ sinkResult' = "ok"
            /\ UNCHANGED appendCalls
            /\ IF variant = "plain" THEN NotifyStep(sheetSuccess) ELSE NotifyStep(TRUE)
       ELSE /\ sheet' = sheet
            /\ sinkResult' = "threw"
            /\ IF appendCalls < 2
               THEN /\ appendCalls' = appendCalls + 1
                    /\ UNCHANGED <<pc, sheetSuccess, emailSuccess, notifyCalls, sendCalls,
                                   senderResult, response, responsesSent, message, seen>>
               ELSE /\ UNCHANGED appendCalls
                    /\ IF variant = "plain" THEN OuterCatch ELSE NotifyStep(FALSE)
    /\ UNCHANGED <<config, transporter, verifyPending, served, formData, sheetMark,
                   transportResult, healthResp>>

\* the append call settles; the handler runs on to the notification step
AppendReturns(o) ==
    /\ pc = "append"
    /\ o \in SinkOutcomes
    /\ IF o = "ok"
       THEN /\ sheet' = sheet \o << Row(formData) >>
            /\ sinkResult' = "ok"
            /\ IF variant = "plain" THEN NotifyStep(sheetSuccess) ELSE NotifyStep(TRUE)
       ELSE /\ sheet' = sheet
            /\ sinkResult' = "threw"
            /\ IF variant = "plain" THEN OuterCatch ELSE NotifyStep(FALSE)
    /\ UNCHANGED <<config, transporter, verifyPending, served, formData, sheetMark,
                   appendCalls, transportResult, healthResp>>

\* the send step with the sender's catch also dropping the transport handle
SendReturnsDisabling(o) ==
    /\ pc = "send"
    /\ o \in TransportOutcomes
    /\ transportResult' = o
    /\ LET r == SendNotificationEmail(variant, "handle", o)
       IN  /\ senderResult' = SenderResultOf(r)
           /\ IF variant = "plain"
              THEN /\ response' = IF r.raised THEN ServerError ELSE PlainSuccess
                   /\ UNCHANGED emailSuccess
              ELSE /\ emailSuccess' = IF r.raised THEN emailSuccess ELSE Truthy(r.value)
                   /\ response' = Composed(sheetSuccess, emailSuccess')
    /\ transporter' = IF o = "throw" THEN "null" ELSE transporter
    /\ responsesSent' = responsesSent + 1
    /\ pc' = "done"
    /\ UNCHANGED <<config, verifyPending, seen, served, formData, sheetSuccess, sheetMark,
                   appendCalls, notifyCalls, sendCalls, sinkResult, message, sheet,
                   healthResp>>

\* the send call settles; sendNotificationEmail returns or raises; the
\* handler composes the response
SendReturns(o) ==
    /\ pc = "send"
    /\ o \in TransportOutcomes
    /\ transportResult' = o
    /\ LET r == SendNotificationEmail(variant, "handle", o)
       IN  /\ senderResult' = SenderResultOf(r)
           /\ IF variant = "plain"
              THEN /\ response' = IF r.raised THEN ServerError ELSE PlainSuccess
                   /\ UNCHANGED emailSuccess
              ELSE /\ emailSuccess' = IF r.raised THEN emailSuccess ELSE Truthy(r.value)
                   /\ response' = Composed(sheetSuccess, emailSuccess')
    /\ responsesSent' = responsesSent + 1
    /\ pc' = "done"
    /\ UNCHANGED <<config, handles, served, formData, sheetSuccess, sheetMark,
                   appendCalls, notifyCalls, sendCalls, sinkResult, message, sheet,
                   healthResp>>

\* ----------------------------------------------------------- GET /health
\* gmail and resend define the route; server.js defines none, so Express
\* answers 404
HealthResponse ==
    IF variant = "plain"
    THEN [status |-> 404, body |-> {}]
    ELSE [status |-> 200,
          body |-> {[status |-> "UP", timestamp |-> "<now>",
                     services |-> IF variant = "gmail"
                                  THEN {[email |-> transporter # "null"]}
                                  ELSE {}]}]

Health ==
    /\ healthResp' = HealthResponse
    /\ seen' = IF variant = "gmail" THEN seen \cup {transporter} ELSE seen
    /\ UNCHANGED <<config, transporter, verifyPending, reqVars, sheet>>

Next ==
    \/ \E error \in BOOLEAN : VerifyCallback(error)
    \/ \E body \in Bodies : Receive(body)
    \/ AuthReturns
    \/ \E o \in {"ok", "throw"} : AppendReturns(o)
    \/ \E o \in {"ok", "throw", "errorResult"} : SendReturns(o)
    \/ Health

Spec == Init /\ [][Next]_vars

\* every awaited call settles: getGoogleSheetsAuth resolves or rejects, and
\* the two external calls eventually return or throw
LiveSpec ==
    /\ Spec
    /\ WF_vars(AuthReturns)
    /\ WF_vars(\E o \in {"ok", "throw"} : AppendReturns(o))
    /\ WF_vars(\E o \in {"ok", "throw", "errorResult"} : SendReturns(o))

\* =================================================================
\* Properties
\* =================================================================
\* the claims' own reading of "name, email and phone present and non-empty"
Present(v)      == v # Undefined /\ v # ""
HasRequired(fd) == Present(fd.name) /\ Present(fd.email) /\ Present(fd.phone)
Answered        == served > 0 /\ pc = "done"
\* rows the request in flight has added to the sheet
Appended        == SubSeq(sheet, sheetMark + 1, Len(sheet))
Details(ss, es) == {[sheetSuccess |-> ss, emailSuccess |-> es]}

\* C1: a submission lacking a non-empty name, email or phone is answered
\* with status 400 and success:false, and neither appendToSheet nor
\* sendNotificationEmail (nor either external call) is invoked for it.
C1_MissingFieldsRejected ==
    (served > 0 /\ ~HasRequired(formData)) =>
        /\ pc = "done"
        /\ response.status = 400
        /\ response.success = FALSE
        /\ sinkResult = "none" /\ appendCalls = 0
        /\ notifyCalls = 0 /\ sendCalls = 0
        /\ Appended = << >>

C1_Witness ==
    /\ Answered
    /\ formData.name = "Dana" /\ formData.email = "dana@x.com"
    /\ formData.phone = Undefined
    /\ response = MissingFields

\* C2: in every variant, when the spreadsheet append throws on a valid
\* submission, the notification step is still invoked and the response is
\* 500 with details.sheetSuccess = false and details.emailSuccess equal to
\* the notification's outcome.
C2_SinkFailureStillNotifies ==
    (Answered /\ HasRequired(formData) /\ sinkResult = "threw") =>
        /\ notifyCalls = 1
        /\ response.status = 500
        /\ response.details = Details(FALSE, senderResult = "sent")

\* C3: in every variant, when the append succeeds and the transport raises,
\* the response is 200 with success:true and details.emailSuccess = false.
C3_NotifyFailureKeeps200 ==
    (Answered /\ HasRequired(formData) /\ sinkResult = "ok"
              /\ transportResult = "throw") =>
        /\ response.status = 200
        /\ response.success = TRUE
        /\ \E d \in response.details : d.emailSuccess = FALSE

\* C4: in every variant, a valid submission is answered 200 with
\* success:true exactly when the append succeeded, otherwise 500 with
\* success:false, and the body always carries details.sheetSuccess and
\* details.emailSuccess.
C4_StatusIsSheetSuccess ==
    (Answered /\ HasRequired(formData)) =>
        /\ (response.status = 200 /\ response.success = TRUE) <=> (sinkResult = "ok")
        /\ (sinkResult # "ok") => (response.status = 500 /\ response.success = FALSE)
        /\ \E d \in response.details :
              d.sheetSuccess \in BOOLEAN /\ d.emailSuccess \in BOOLEAN

\* C5: in every variant, with no notification transport configured
\* (credentials / API key absent) and a successful append, the response is
\* 200 with details.sheetSuccess = true and details.emailSuccess = false;
\* the sender returns without raising and without calling the transport.
C5_UnconfiguredSenderSkips ==
    (Answered /\ HasRequired(formData) /\ ~credsPresent /\ sinkResult = "ok") =>
        /\ response.status = 200
        /\ response.details = Details(TRUE, FALSE)
        /\ senderResult = "null"
        /\ sendCalls = 0

\* C6: per admitted request the append operation is called at most once
\* and the transport's send operation at most once, on every path; a failed
\* call is never issued again.
C6_AtMostOnce ==
    /\ appendCalls <= 1
    /\ sendCalls <= 1
    /\ notifyCalls <= 1
    /\ (sinkResult = "threw" /\ pc # "idle") => pc # "append"
    /\ (transportResult = "throw") => pc # "send"

C6_Witness ==
    /\ Answered
    /\ sinkResult = "threw" /\ appendCalls = 1
    /\ transportResult = "throw" /\ sendCalls = 1

\* the row the claim expects for a submission
ExpectedRow(fd) ==
    << fd.timestamp, fd.name, fd.email, fd.phone,
       IF fd.whatsapp = JsTrue THEN "Yes" ELSE "No", fd.source >>

\* C7 (as stated): for every submission passed to appendToSheet exactly one
\* row is appended, equal to [timestamp, name, email, phone, consent,
\* source] with consent "Yes" for whatsapp true, "No" for false or absent.
C7_Original ==
    (sinkResult # "none") => Appended = << ExpectedRow(formData) >>

\* C7 (amended): for every submission passed to appendToSheet whose append
\* succeeds, exactly one row is appended, equal to [timestamp, name, email,
\* phone, consent, source] with consent "Yes" for whatsapp true and "No"
\* for false or absent; when appendToSheet throws, no row is appended.
C7_RowAppended ==
    /\ (sinkResult = "ok") => Appended = << ExpectedRow(formData) >>
    /\ (sinkResult = "threw") => Appended = << >>
    /\ (pc \in {"auth", "append"}) => Appended = << >>

C7_Witness ==
    /\ sinkResult = "ok"
    /\ formData.whatsapp = JsTrue
    /\ formData.source = "Landing Page"
    /\ Appended = << << "2025-05-17T08:02:33.600Z", "Dana", "dana@x.com",
                        "0501234567", "Yes", "Landing Page" >> >>

\* C8: in every variant, GET /health answers 200 with status "UP" and a
\* timestamp, whatever the configuration state of the integrations.
C8_HealthAlwaysUp ==
    (healthResp.status # 0) =>
        /\ healthResp.status = 200
        /\ \E b \in healthResp.body : b.status = "UP" /\ b.timestamp = "<now>"

\* C9: in every variant, sendNotificationEmail never raises to its caller:
\* a transport error is caught inside the sender and turned into null.
C9_SenderNeverRaises ==
    /\ senderResult # "raised"
    /\ (transportResult = "throw") => senderResult = "null"

\* C10: details.emailSuccess is true only if the notification call
\* completed without error and a message was dispatched; when the transport
\* reports a failure (raising or returning an error result) or the sender
\* is disabled, emailSuccess is false.
C10_EmailSuccessMeansSent ==
    (Answered /\ HasRequired(formData)) =>
        \A d \in response.details :
            /\ d.emailSuccess => (transportResult = "ok" /\ sendCalls = 1)
            /\ (transportResult \in {"throw", "errorResult"} \/ sendCalls = 0)
                  => ~d.emailSuccess

\* C11: the SMTP-relay sender (gmail file) and the transactional-API sender
\* (resend file) behave alike: each send call carries one message to
\* NOTIFICATION_EMAIL with every field of the submission and the lead's own
\* email as reply-to, and the same transport result gives the same
\* sent / failed outcome.
C11_SendersEquivalent ==
    (variant \in {"gmail", "resend"} /\ sendCalls > 0) =>
        /\ sendCalls = 1
        /\ message.to = NOTIFICATION_EMAIL
        /\ message.replyTo = formData.email
        /\ message.name = formData.name
        /\ message.email = formData.email
        /\ message.phone = formData.phone
        /\ message.whatsapp = (IF formData.whatsapp = JsTrue THEN "yes" ELSE "no")
        /\ (formData.source # Undefined => message.source = formData.source)
        /\ message.date[2] = formData.timestamp
        /\ (transportResult = "ok") => senderResult = "sent"
        /\ (transportResult = "throw") => senderResult = "null"

\* C12 (as stated): the transport handle is initialized once at startup and
\* read-only thereafter: every request served by the process reads the
\* same configured-or-disabled state.
C12_Original == Cardinality(seen) <= 1

\* C12 (amended): after startup the handle changes at most once, and only
\* in the gmail variant: its verification callback, which runs once, may
\* turn a configured handle into a disabled one; no request handler writes
\* it.  Requests served before and after a failed verification can read
\* different states; where no callback is pending at startup (resend,
\* server.js, gmail without credentials) every request reads the same one.
C12_HandleWrittenOnlyByVerify ==
    /\ []((variant # "gmail" \/ ~credsPresent) => Cardinality(seen) <= 1)
    /\ [][ /\ (transporter' # transporter) =>
                 /\ variant = "gmail"
                 /\ verifyPending /\ ~verifyPending'
                 /\ transporter = "handle" /\ transporter' = "null"
           /\ (~verifyPending) => ~verifyPending' ]_vars

C12_Witness ==
    /\ variant = "gmail" /\ credsPresent
    /\ ~verifyPending
    /\ transporter = "null"
    /\ seen = {"handle", "null"}
    /\ served = 2

DefaultSource == IF variant = "plain" THEN PlainDefaultSource ELSE HebrewDefaultSource

\* C14: when a valid submission omits source, the source cell of the
\* appended row and the source shown in the notification both carry the
\* fixed default label, not an empty or undefined value.
C14_SourceDefaulted ==
    (HasRequired(formData) /\ formData.source = Undefined) =>
        /\ (sinkResult = "ok") =>
               (Len(Appended) = 1 /\ Appended[1][6] = DefaultSource)
        /\ (sendCalls > 0) => message.source = DefaultSource

\* C15: every admitted request gets exactly one response, with status 200,
\* 400 or 500, on every path; no path sends a second one; and, every
\* awaited call settling, the response is eventually sent.
C15_ExactlyOneResponse ==
    /\ [](/\ responsesSent <= 1
          /\ (pc \in {"auth", "append", "send"}) => responsesSent = 0
          /\ Answered => (responsesSent = 1 /\ response.status \in {200, 400, 500}))
    /\ (pc \in {"auth", "append", "send"}) ~> (pc = "done" /\ responsesSent = 1)

C15_Witness ==
    /\ Answered
    /\ responsesSent = 1
    /\ sinkResult = "threw" /\ transportResult = "throw"
    /\ response.status = 500

====
